---- MODULE Spec2Model ----
(***************************************************************************)
(* DGA detector: dataset synthesis and training (1_train_and_export.py),   *)
(* single-domain inference (2_analyze_domain.py) and the playbook request  *)
(* (genai_prescriptions.py).                                               *)
(*                                                                         *)
(* Strings are sequences of one-character strings.  Probabilities are      *)
(* integers counting tenths (5 stands for 0.5).                            *)
(***************************************************************************)
EXTENDS Integers, Sequences, FiniteSets, TLC

VARIABLES
    spc,        \* position of the feature-consistency scenario
    s_kind,     \* "legit" | "dga" | "user" | "none": where the domain came from
    s_sld,      \* the label the generator produced (training side)
    s_dom,      \* the domain string
    s_len,      \* "length" stored in the training record
    s_out       \* split_sld(domain) computed at inference

sldVars == <<spc, s_kind, s_sld, s_dom, s_len, s_out>>

VARIABLES
    pc,             \* position in 2_analyze_domain.main
    domain,         \* args.domain
    mojo_exists,    \* mojo_path.exists()
    skip_genai,     \* args.skip_genai
    google_api_key, \* args.google_api_key
    env_key,        \* os.environ.get("GOOGLE_API_KEY")
    features,       \* the feature vector (length)
    pred,           \* the raw prediction table: a sequence of columns
    p_dga,          \* tenths; -1 before it is derived
    label,          \* "dga" | "legit" | "none"
    contrib,        \* what predict_contributions did (NoContrib before it ran)
    xai_findings,   \* the findings block: a sequence of lines, <<>> if none
    response,       \* what the remote call answered (NoResponse if none was sent)
    playbook,       \* the value generate_playbook returned (JNull before the call)
    exc,            \* the exception that ended the run, "none" otherwise
    playbook_calls, \* calls of generate_playbook
    http_requests   \* requests.post calls sent

infVars == <<pc, domain, mojo_exists, skip_genai, google_api_key, env_key,
             features, pred, p_dga, label, contrib, xai_findings, response,
             playbook, exc, playbook_calls, http_requests>>

VARIABLES
    tpc,            \* position in 1_train_and_export.main / synth_dataset
    entry,          \* "main": the training command; "call": synth_dataset alone
    rows_arg,       \* args.rows
    n_legit,
    n_dga,
    t_i,            \* loop counter of synth_dataset
    rows,           \* the list synth_dataset appends to
    df,             \* the shuffled frame it returns
    files,          \* files written under data/ and model/
    leader,         \* "automl" | "gbm" | "none"
    automl_failed,  \* the except branch of STEP 3 was entered
    texc            \* the exception that ended training, "none" otherwise

trainVars == <<tpc, entry, rows_arg, n_legit, n_dga, t_i, rows, df, files,
               leader, automl_failed, texc>>

vars == <<sldVars, infVars, trainVars>>

(***************************************************************************)
(* Bounds                                                                  *)
(***************************************************************************)
MaxSeed == 1        \* random streams explored per generated label: 0..MaxSeed
MaxDomLen == 4      \* longest user-supplied domain string explored
MaxCols == 3        \* widest raw prediction table explored
MaxRows == 4        \* largest --rows explored
MaxCall == 2        \* largest n_legit, n_dga of a direct synth_dataset call

(***************************************************************************)
(* String helpers (Python str methods)                                     *)
(***************************************************************************)
\* str.lower() on one character of the explored alphabet
LowerChar(c) ==
    CASE c = "A" -> "a"
      [] c = "B" -> "b"
      [] c = "C" -> "c"
      [] c = "D" -> "d"
      [] c = "G" -> "g"
      [] c = "P" -> "p"
      [] c = "R" -> "r"
      [] c = "E" -> "e"
      [] c = "I" -> "i"
      [] c = "T" -> "t"
      [] OTHER -> c

Lower(s) == [i \in 1..Len(s) |-> LowerChar(s[i])]

IsSpace(c) == c \in {" ", "\t", "\n"}

\* str.strip(): drop leading and trailing whitespace only
Strip(s) ==
    LET keep == {i \in 1..Len(s) : ~IsSpace(s[i])}
    IN  IF keep = {} THEN <<>>
        ELSE LET lo == CHOOSE i \in keep : \A j \in keep : i <= j
                 hi == CHOOSE i \in keep : \A j \in keep : j <= i
             IN  SubSeq(s, lo, hi)

\* str.split(sep) with an explicit one-character separator: never empty,
\* "" -> [""], "a." -> ["a", ""]
RECURSIVE SplitFrom(_, _, _, _)
SplitFrom(s, sep, i, cur) ==
    IF i > Len(s) THEN <<cur>>
    ELSE IF s[i] = sep THEN <<cur>> \o SplitFrom(s, sep, i + 1, <<>>)
    ELSE SplitFrom(s, sep, i + 1, Append(cur, s[i]))

Split(s, sep) == SplitFrom(s, sep, 1, <<>>)

(***************************************************************************)
(* Feature helpers                                                         *)
(***************************************************************************)
split_sld(dom) ==
    LET parts == Split(Strip(Lower(dom)), ".")
    IN  IF Len(parts) <= 1 THEN parts[1]
        ELSE parts[Len(parts) - 1]

(***************************************************************************)
(* Synthetic labels                                                        *)
(***************************************************************************)
LOWERCASE == <<"a","b","c","d","e","f","g","h","i","j","k","l","m",
               "n","o","p","q","r","s","t","u","v","w","x","y","z">>
DIGITS == <<"0","1","2","3","4","5","6","7","8","9">>
ALPHABET == LOWERCASE \o DIGITS
vowels == <<"a","e","i","o","u">>
consonants == <<"b","c","d","f","g","h","j","k","l","m","n",
                "p","q","r","s","t","v","w","x","y","z">>
COMMON_TLDS == << <<"c","o","m">>, <<"n","e","t">>, <<"o","r","g">>,
                  <<"i","o">>, <<"a","i">>, <<"c","o">>,
                  <<"i","n","f","o">>, <<"b","i","z">>,
                  <<"s","i","t","e">>, <<"t","o","p">> >>

LegitMinLen == 5
LegitMaxLen == 12
ExtMinLen == 2
ExtMaxLen == 4
DgaMinLen == 12
DgaMaxLen == 26
HyphenMargin == 3

Max(a, b) == IF a >= b THEN a ELSE b

\* random.choice(seq): the k-th draw of random stream `seed`
Choice(seq, seed, k) == seq[((seed * (k + 1) + 7 * k) % Len(seq)) + 1]

\* i-th character (0-based) of the alternating consonant/vowel pattern
AltChar(seed, k, i) == Choice(IF i % 2 = 0 THEN consonants ELSE vowels, seed, k)

\* random_legit_label(): length = randint(5, 12); hyphen = (random() < 0.2);
\* ext = randint(2, 4)
random_legit_label(length, hyphen, ext, seed) ==
    LET name == [i \in 1..length |-> AltChar(seed, i - 1, i - 1)]
        tail == [i \in 1..ext |-> AltChar(seed, length + i - 1, i - 1)]
    IN  IF hyphen THEN name \o <<"-">> \o tail ELSE name

\* random_dga_label(): length = randint(12, 26); hyphen = (random() < 0.3);
\* pos = randint(3, max(3, length - 3))
random_dga_label(length, hyphen, pos, seed) ==
    LET s == [i \in 1..length |-> Choice(ALPHABET, seed, i - 1)]
    IN  IF hyphen
        THEN SubSeq(s, 1, pos) \o <<"-">> \o SubSeq(s, pos + 1, Len(s))
        ELSE s

make_domain(sld, tld) == sld \o <<".">> \o tld


(***************************************************************************)
(* Raw prediction table and its cells                                      *)
(***************************************************************************)
\* A cell is a float (n tenths), an int (n) or a str (s).
FloatCell(k) == [kind |-> "float", n |-> k, s |-> <<>>]
IntCell(k) == [kind |-> "int", n |-> k, s |-> <<>>]
StrCell(t) == [kind |-> "str", n |-> 0, s |-> t]

Digit(k) == DIGITS[k + 1]
IsDigit(c) == \E k \in 0..9 : c = Digit(k)
DigitVal(c) == CHOOSE k \in 0..9 : c = Digit(k)

RECURSIVE DecVal(_)
DecVal(t) == IF t = <<>> THEN 0
             ELSE 10 * DecVal(SubSeq(t, 1, Len(t) - 1)) + DigitVal(t[Len(t)])

\* float(x): the value in tenths, or ValueError for a str that is no number
PyFloat(c) ==
    IF c.kind = "float" THEN [exc |-> "none", val |-> c.n]
    ELSE IF c.kind = "int" THEN [exc |-> "none", val |-> 10 * c.n]
    ELSE IF c.s # <<>> /\ \A i \in 1..Len(c.s) : IsDigit(c.s[i])
         THEN [exc |-> "none", val |-> 10 * DecVal(c.s)]
         ELSE [exc |-> "ValueError", val |-> -1]

\* str(x): "0.5" for the float 0.5, "1" for the int 1
PyStr(c) ==
    IF c.kind = "float" THEN <<Digit(c.n \div 10), ".", Digit(c.n % 10)>>
    ELSE IF c.kind = "int" THEN <<Digit(c.n)>>
    ELSE c.s

StartsWith(t, c) == Len(t) >= 1 /\ t[1] = c

\* cmap = {c.lower(): c for c in pred.columns}: a later column replaces an
\* earlier one of the same lower-cased name
InCmap(table, lname) == \E i \in 1..Len(table) : Lower(table[i].name) = lname
Cmap(table, lname) ==
    CHOOSE i \in 1..Len(table) :
        /\ Lower(table[i].name) = lname
        /\ \A j \in 1..Len(table) : Lower(table[j].name) = lname => j <= i

\* pred.loc[0, name]: exact column name, KeyError if there is none
HasColumn(table, name) == \E i \in 1..Len(table) : table[i].name = name
Loc(table, name) == table[CHOOSE i \in 1..Len(table) : table[i].name = name].val

N_dga == <<"d","g","a">>
N_p1 == <<"p","1">>
N_predict == <<"p","r","e","d","i","c","t">>
S_one == <<"1">>

\* prob_cols = [c for c in pred.columns if c.lower().startswith("p")]
ProbCols(table) == {i \in 1..Len(table) : StartsWith(Lower(table[i].name), "p")}

\* pred.loc[0, "predict"]
PredictCell(table) ==
    IF HasColumn(table, N_predict)
    THEN [exc |-> "none", cell |-> Loc(table, N_predict)]
    ELSE [exc |-> "KeyError", cell |-> IntCell(0)]

\* 2_analyze_domain.main, "Try to derive P(dga)"
DeriveP(table) ==
    IF InCmap(table, N_dga) THEN PyFloat(table[Cmap(table, N_dga)].val)
    ELSE IF InCmap(table, N_p1) THEN PyFloat(table[Cmap(table, N_p1)].val)
    ELSE LET prob_cols == ProbCols(table)
         IN  IF Cardinality(prob_cols) >= 2
             THEN PyFloat(table[CHOOSE i \in prob_cols :
                                    \A j \in prob_cols : j <= i].val)
             ELSE LET c == PredictCell(table)
                  IN  IF c.exc # "none" THEN [exc |-> c.exc, val |-> -1]
                      ELSE IF Lower(PyStr(c.cell)) \in {S_one, N_dga}
                           THEN [exc |-> "none", val |-> 10]
                           ELSE [exc |-> "none", val |-> 0]

\* Column names and cell values of the explored prediction tables
ColNames == { N_dga, <<"D","G","A">>, <<"l","e","g","i","t">>, <<"p","0">>,
              N_p1, <<"P","1">>, <<"P","2">>, N_predict,
              <<"P","r","e","d","i","c","t">> }
ProbVals == <<3, 8>>
LabelVals == << StrCell(N_dga), StrCell(<<"D","G","A">>),
                StrCell(<<"l","e","g","i","t">>), IntCell(1) >>

\* a probability column holds a float, the predict column a class label
CellsFor(name) ==
    IF Lower(name) = N_predict THEN LabelVals
    ELSE [k \in 1..Len(ProbVals) |-> FloatCell(ProbVals[k])]

\* the table of the columns names[i], the i-th holding its idx[i]-th value
TableOf(names, idx) ==
    [i \in 1..Len(names) |-> [name |-> names[i], val |-> CellsFor(names[i])[idx[i]]]]

\* column names are distinct and every value index exists
WellFormed(names, idx) ==
    /\ \A i, j \in 1..Len(names) : i # j => names[i] # names[j]
    /\ \A i \in 1..Len(names) : idx[i] <= Len(CellsFor(names[i]))

(***************************************************************************)
(* Decision, findings block                                                *)
(***************************************************************************)
Threshold == 5      \* 0.5

\* mutant: exclusive threshold
Classify_strict(p) == IF p > Threshold THEN "dga" ELSE "legit"

\* label = "dga" if p_dga >= 0.5 else "legit"
Classify(p) == IF p >= Threshold THEN "dga" ELSE "legit"

\* mutant: the attribution step is entered whatever the label
AfterDecide_always(lab) == "shap"

\* if label != "dga": return
AfterDecide(lab) == IF lab # "dga" THEN "done" ELSE "shap"

\* f"{p_dga*100:.1f}": the percentage, counted in tenths of a percent
Pct1(p) == p * 100

push_dir(val) == IF val >= 0 THEN "toward DGA" ELSE "toward legit"

Line(tag, text, a, b, dir) ==
    [tag |-> tag, text |-> text, a |-> a, b |-> b, dir |-> dir]

\* What model.predict_contributions(hf).as_data_frame() can do: raise, or
\* return a frame holding some of the columns length, entropy, BiasTerm.
NoContrib ==
    [ok |-> TRUE, reason |-> "not run", cols |-> {}, len_v |-> 0, ent_v |-> 0, bias |-> 0]

ContribOutcomes ==
    {[ok |-> FALSE, reason |-> r, cols |-> {}, len_v |-> 0, ent_v |-> 0, bias |-> 0] :
        r \in {"H2OResponseError", "ValueError"}}
    \cup
    {[ok |-> TRUE, reason |-> "", cols |-> c, len_v |-> l, ent_v |-> e, bias |-> 1] :
        c \in {{}, {"length"}, {"length", "entropy", "BiasTerm"}},
        l \in {-2, 0, 3}, e \in {-2, 3}}

\* the except branch of STEP 4
FindingsFallback(dom, p, reason) ==
    << Line("alert", <<>>, 0, 0, ""),
       Line("domain", dom, 0, 0, ""),
       Line("note", <<>>, 0, 0, reason),
       Line("confidence", <<>>, Pct1(p), 0, "") >>

\* mutant: the exception of the attribution step is not caught
BuildFindings_nocatch(dom, feat, p, o) ==
    IF o.ok
    THEN [exc |-> "none", text |-> FindingsFallback(dom, p, "")]
    ELSE [exc |-> o.reason, text |-> <<>>]

\* STEP 4: SHAP-style contributions, try/except Exception
BuildFindings(dom, feat, p, o) ==
    IF o.ok
    THEN LET shap_len == IF "length" \in o.cols THEN o.len_v ELSE 0
             shap_ent == IF "entropy" \in o.cols THEN o.ent_v ELSE 0
             bias == IF "BiasTerm" \in o.cols THEN o.bias ELSE 0
         IN  [exc |-> "none",
              text |-> << Line("alert", <<>>, 0, 0, ""),
                          Line("domain", dom, 0, 0, ""),
                          Line("explanation", <<>>, 0, 0, ""),
                          Line("confidence", <<>>, Pct1(p), 0, ""),
                          Line("length", <<>>, feat.length, shap_len, push_dir(shap_len)),
                          Line("entropy", <<>>, 0, shap_ent, push_dir(shap_ent)),
                          Line("bias", <<>>, 0, bias, "") >>]
    ELSE [exc |-> "none", text |-> FindingsFallback(dom, p, o.reason)]

(***************************************************************************)
(* genai_prescriptions.generate_playbook                                   *)
(***************************************************************************)
NoKey == "<None>"
ErrMarker == "[GenAI error]"
Falsy(k) == k = NoKey \/ k = ""

\* ---- JSON values, as r.json() decodes them ----
JVal(t, b, n, str, keys, items) ==
    [t |-> t, b |-> b, n |-> n, s |-> str, keys |-> keys, items |-> items]
JNull == JVal("null", FALSE, 0, <<>>, <<>>, <<>>)
JBool(b) == JVal("bool", b, 0, <<>>, <<>>, <<>>)
JNum(n) == JVal("num", FALSE, n, <<>>, <<>>, <<>>)
JStr(str) == JVal("str", FALSE, 0, str, <<>>, <<>>)
JList(items) == JVal("list", FALSE, 0, <<>>, <<>>, items)
\* a dict with the keys keys[i] and the values items[i]
JDict(keys, items) == JVal("dict", FALSE, 0, <<>>, keys, items)
JObj(key, v) == JDict(<<key>>, <<v>>)

\* bool(v)
Truthy(v) ==
    CASE v.t = "null" -> FALSE
      [] v.t = "bool" -> v.b
      [] v.t = "num" -> v.n # 0
      [] v.t = "str" -> v.s # <<>>
      [] v.t = "list" -> v.items # <<>>
      [] OTHER -> v.keys # <<>>

Ok(v) == [exc |-> "none", val |-> v]
Err(e) == [exc |-> e, val |-> JNull]

HasKey(v, key) == \E i \in 1..Len(v.keys) : v.keys[i] = key
AtKey(v, key) == v.items[CHOOSE i \in 1..Len(v.keys) : v.keys[i] = key]

\* data.get(key): only a dict has .get
DictGet(v, key) ==
    IF v.t # "dict" THEN Err("AttributeError")
    ELSE IF HasKey(v, key) THEN Ok(AtKey(v, key)) ELSE Ok(JNull)

\* v[0]
Index0(v) ==
    CASE v.t = "list" -> IF v.items # <<>> THEN Ok(v.items[1]) ELSE Err("IndexError")
      [] v.t = "str" -> IF v.s # <<>> THEN Ok(JStr(<<v.s[1]>>)) ELSE Err("IndexError")
      [] v.t = "dict" -> Err("KeyError")
      [] OTHER -> Err("TypeError")

\* v[key] for a str key
Subscript(v, key) ==
    IF v.t = "dict"
    THEN IF HasKey(v, key) THEN Ok(AtKey(v, key)) ELSE Err("KeyError")
    ELSE Err("TypeError")

\* the next subscript is applied unless an exception is already under way
ThenIndex0(r) == IF r.exc # "none" THEN r ELSE Index0(r.val)
ThenSubscript(r, key) == IF r.exc # "none" THEN r ELSE Subscript(r.val, key)

\* What the remote call can answer.
Block == <<"B","l","o","c","k">>
TextLeaves == {JStr(Block), JStr(<<>>), JNull, JNum(5)}
PartValues ==
    {JNull, JStr(<<"x">>), JObj("functionCall", JStr(<<"f">>))}
    \cup {JObj("text", t) : t \in TextLeaves}
PartsValues ==
    {JNull, JNum(5), JDict(<<>>, <<>>), JList(<<>>), JStr(<<"a","b">>)}
    \cup {JList(<<q>>) : q \in PartValues}
ContentValues ==
    {JNull, JStr(<<"x">>), JObj("role", JStr(<<"m">>))}
    \cup {JObj("parts", q) : q \in PartsValues}
CandValues ==
    {JNull, JNum(0), JNum(5), JStr(<<>>), JStr(<<"x">>), JBool(FALSE),
     JDict(<<>>, <<>>), JObj("finishReason", JStr(<<"S">>))}
    \cup {JObj("content", c) : c \in ContentValues}
CandidatesValues ==
    {JNull, JNum(0), JNum(5), JStr(<<>>), JStr(<<"a","b">>), JBool(FALSE),
     JObj("a", JNum(1)), JDict(<<>>, <<>>), JList(<<>>)}
    \cup {JList(<<c>>) : c \in CandValues}
Bodies ==
    {JNull, JList(<<>>), JStr(<<"x">>), JDict(<<>>, <<>>)}
    \cup {JObj("candidates", c) : c \in CandidatesValues}

Resp(net, status, json, body) ==
    [net |-> net, status |-> status, json |-> json, body |-> body]
NoResponse == Resp("none", 0, FALSE, JNull)
Responses ==
    {Resp("fail", 0, FALSE, JNull)}
    \cup {Resp("ok", st, j, JNull) : st \in {403, 500}, j \in BOOLEAN}
    \cup {Resp("ok", 200, FALSE, JNull)}
    \cup {Resp("ok", 200, TRUE, d) : d \in Bodies}

\* an f-string: the text made of these chunks
Text(chunks) == JStr(chunks)

\* lines 42-48: what the try body returns, or the exception it raises
TryBody(resp) ==
    IF resp.net = "fail" THEN Err("ConnectionError")
    ELSE IF resp.status >= 400 /\ resp.status < 600 THEN Err("HTTPError")
    ELSE IF ~resp.json THEN Err("JSONDecodeError")
    ELSE LET data == resp.body
             got == DictGet(data, "candidates")
             cand == IF got.exc # "none" THEN got
                     ELSE Index0(IF Truthy(got.val) THEN got.val
                                 ELSE JList(<<JNull>>))
         IN  IF cand.exc # "none" THEN cand
             ELSE IF ~Truthy(cand.val)
                  THEN Ok(Text(<<ErrMarker, " Empty response: ", "json.dumps(data)">>))
             ELSE ThenSubscript(
                      ThenIndex0(
                          ThenSubscript(Subscript(cand.val, "content"), "parts")),
                      "text")

Returned(v, sent) == [raised |-> FALSE, exc |-> "none", value |-> v, sent |-> sent]

\* mutant: a missing key is not checked before the request
generate_playbook_nocheck(findings, api_key, env, resp) ==
    LET t == TryBody(resp)
    IN  IF t.exc = "none" THEN Returned(t.val, 1)
        ELSE Returned(Text(<<ErrMarker, " ", t.exc>>), 1)

generate_playbook(findings, api_key, env, resp) ==
    LET key == IF Falsy(api_key) THEN env ELSE api_key
    IN  IF Falsy(key)
        THEN Returned(Text(<<ErrMarker, " GOOGLE_API_KEY is not set.">>), 0)
        ELSE LET t == TryBody(resp)
             IN  IF t.exc = "none" THEN Returned(t.val, 1)
                 ELSE IF t.exc = "HTTPError"
                      THEN Returned(Text(<<ErrMarker, " ", t.exc, " - ",
                                           IF resp.json THEN "r.json()" ELSE "r.text">>), 1)
                      ELSE Returned(Text(<<ErrMarker, " ", t.exc>>), 1)

(***************************************************************************)
(* 2_analyze_domain.main                                                   *)
(***************************************************************************)
Domains == { <<"g","o","o","g","l","e",".","c","o","m">>,
             <<"k","q","3","v","9","z","7","j","1","x","5","f","8","g","2","h",
               ".","i","n","f","o">> }
ArgKeys == {NoKey, "", "arg-key"}
EnvKeys == {NoKey, "env-key"}

\* Prediction tables of the layouts the scoring backend produces
RunLayouts == { <<N_predict, N_dga, <<"l","e","g","i","t">> >>,
                <<N_predict, <<"p","0">>, N_p1>>,
                <<N_predict>>,
                <<<<"P","r","e","d","i","c","t">>>>,
                << <<"p","0">>, N_predict>> }
RunProbVals == {4, 5, 6}
RunCells(name) ==
    IF Lower(name) = N_predict THEN {LabelVals[k] : k \in 1..Len(LabelVals)}
    ELSE {FloatCell(k) : k \in RunProbVals}

RECURSIVE Fill(_)
Fill(names) ==
    IF names = <<>> THEN {<<>>}
    ELSE {<<[name |-> Head(names), val |-> v]>> \o t :
            v \in RunCells(Head(names)), t \in Fill(Tail(names))}

RunTables == UNION {Fill(l) : l \in RunLayouts}

InfStart ==
    /\ features = [length |-> -1]
    /\ pred = <<>>
    /\ p_dga = -1
    /\ label = "none"
    /\ contrib = NoContrib
    /\ xai_findings = <<>>
    /\ response = NoResponse
    /\ playbook = JNull
    /\ exc = "none"
    /\ playbook_calls = 0
    /\ http_requests = 0

InfIdleArgs ==
    /\ domain = <<>>
    /\ mojo_exists = FALSE
    /\ skip_genai = FALSE
    /\ google_api_key = NoKey
    /\ env_key = NoKey

args == <<domain, mojo_exists, skip_genai, google_api_key, env_key>>

\* the run ends with exception e
Exit(e) ==
    /\ exc' = e
    /\ pc' = "exit"

\* sld = split_sld(domain); features = {"length": len(sld), ...}
\* (entropy is a real number no property here reads; it is left out)
Features ==
    /\ pc = "start"
    /\ features' = [length |-> Len(split_sld(domain))]
    /\ pc' = "h2o_init"
    /\ UNCHANGED <<sldVars, trainVars, args, pred, p_dga, label, contrib, xai_findings,
                   response, playbook, exc, playbook_calls, http_requests>>

\* STEP 1: h2o.init()
H2OInit ==
    /\ pc = "h2o_init"
    /\ \E ok \in BOOLEAN :
          IF ok THEN pc' = "load" /\ UNCHANGED exc ELSE Exit("h2o.init error")
    /\ UNCHANGED <<sldVars, trainVars, args, features, pred, p_dga, label, contrib, xai_findings,
                   response, playbook, playbook_calls, http_requests>>

\* STEP 2: load MOJO
LoadMojo ==
    /\ pc = "load"
    /\ IF ~mojo_exists THEN Exit("SystemExit")
       ELSE \E ok \in BOOLEAN :
               IF ok THEN pc' = "predict" /\ UNCHANGED exc ELSE Exit("import_mojo error")
    /\ UNCHANGED <<sldVars, trainVars, args, features, pred, p_dga, label, contrib, xai_findings,
                   response, playbook, playbook_calls, http_requests>>

\* hf = h2o.H2OFrame(...) or model.predict(hf).as_data_frame() raises
ScoreErrors == {"H2OFrame error", "predict error"}

\* STEP 3: pred = model.predict(hf).as_data_frame()
Predict ==
    /\ pc = "predict"
    /\ \/ /\ \E t \in RunTables : pred' = t
          /\ pc' = "normalize"
          /\ UNCHANGED exc
       \/ /\ \E e \in ScoreErrors : Exit(e)
          /\ UNCHANGED pred
    /\ UNCHANGED <<sldVars, trainVars, args, features, p_dga, label, contrib,
                   xai_findings, response, playbook, playbook_calls,
                   http_requests>>

\* lines 85-100: derive P(dga)
Normalize ==
    /\ pc = "normalize"
    /\ LET r == DeriveP(pred)
       IN  IF r.exc = "none"
           THEN p_dga' = r.val /\ pc' = "decide" /\ UNCHANGED exc
           ELSE Exit(r.exc) /\ UNCHANGED p_dga
    /\ UNCHANGED <<sldVars, trainVars, args, features, pred, label, contrib, xai_findings,
                   response, playbook, playbook_calls, http_requests>>

\* lines 102-107
Decide ==
    /\ pc = "decide"
    /\ label' = Classify(p_dga)
    /\ pc' = AfterDecide(label')
    /\ UNCHANGED <<sldVars, trainVars, args, features, pred, p_dga, contrib, xai_findings,
                   response, playbook, exc, playbook_calls, http_requests>>

\* lines 109-138
Shap ==
    /\ pc = "shap"
    /\ \E o \in ContribOutcomes :
          LET f == BuildFindings(domain, features, p_dga, o)
          IN  /\ contrib' = o
              /\ IF f.exc = "none"
                 THEN xai_findings' = f.text /\ pc' = "genai" /\ UNCHANGED exc
                 ELSE Exit(f.exc) /\ UNCHANGED xai_findings
    /\ UNCHANGED <<sldVars, trainVars, args, features, pred, p_dga, label,
                   response, playbook, playbook_calls, http_requests>>

\* lines 140-143
SkipGenAI ==
    /\ pc = "genai"
    /\ skip_genai
    /\ pc' = "done"
    /\ UNCHANGED <<sldVars, trainVars, args, features, pred, p_dga, label,
                   contrib, xai_findings, response, playbook, exc,
                   playbook_calls, http_requests>>

\* lines 145-149
GenAI ==
    /\ pc = "genai"
    /\ ~skip_genai
    /\ \E resp \in Responses :
          LET r == generate_playbook(xai_findings, google_api_key, env_key, resp)
          IN  /\ playbook_calls' = playbook_calls + 1
              /\ response' = IF r.sent = 1 THEN resp ELSE NoResponse
              /\ http_requests' = http_requests + r.sent
              /\ IF r.raised
                 THEN Exit(r.exc) /\ UNCHANGED playbook
                 ELSE playbook' = r.value /\ pc' = "done" /\ UNCHANGED exc
    /\ UNCHANGED <<sldVars, trainVars, args, features, pred, p_dga, label,
                   contrib, xai_findings>>

InfNext ==
    \/ Features \/ H2OInit \/ LoadMojo \/ Predict \/ Normalize \/ Decide
    \/ Shap \/ SkipGenAI \/ GenAI

(***************************************************************************)
(* The normalizer alone, over every table of up to MaxCols columns         *)
(***************************************************************************)
PredictAny ==
    /\ pc = "predict"
    /\ \/ /\ \E n \in 1..MaxCols :
             \E names \in [1..n -> ColNames], idx \in [1..n -> 1..Len(LabelVals)] :
             /\ WellFormed(names, idx)
             /\ pred' = TableOf(names, idx)
          /\ pc' = "normalize"
          /\ UNCHANGED exc
       \/ /\ \E e \in ScoreErrors : Exit(e)
          /\ UNCHANGED pred
    /\ UNCHANGED <<sldVars, trainVars, args, features, p_dga, label, contrib,
                   xai_findings, response, playbook, playbook_calls,
                   http_requests>>


(***************************************************************************)
(* 1_train_and_export: synth_dataset and main                              *)
(***************************************************************************)
CsvPath == "data/dga_dataset_train.csv"
LbPath == "model/leaderboard.csv"
MojoTmp == "model/<leader>.zip"
FinalMojo == "model/DGA_Leader.zip"

\* n_legit = args.rows // 2  (floor division)
SplitLegit(r) == r \div 2

\* len(range(n))
RangeLen(n) == IF n > 0 THEN n ELSE 0

Row(i, lab) == [id |-> i, label |-> lab]

\* mutant: sampling with replacement
Shuffles_replace(rs) == [1..Len(rs) -> {rs[i] : i \in 1..Len(rs)}]

\* df.sample(frac=1.0, random_state=42).reset_index(drop=True): the rows in
\* some order, each exactly once
Shuffles(rs) ==
    LET n == Len(rs)
        perms == {f \in [1..n -> 1..n] : \A i, j \in 1..n : i # j => f[i] # f[j]}
    IN  {[i \in 1..n |-> rs[f[i]]] : f \in perms}

AutoMLOutcomes == {"ok", "construct failed", "train failed", "no leader",
                   "leaderboard failed"}

\* STEP 3, the try block: any Exception in it enters the except branch
\* leader = aml.leader (line 143) is assigned before the leaderboard is read
\* (line 144), and a leader of None fails at leader.model_id (line 145)
AutoMLStep(o) ==
    CASE o = "ok" -> [exc |-> "none", leader |-> "automl", failed |-> FALSE]
      [] o = "leaderboard failed" ->
            [exc |-> "none", leader |-> "automl", failed |-> TRUE]
      [] OTHER -> [exc |-> "none", leader |-> "none", failed |-> TRUE]

TrainStart ==
    /\ entry = "none"
    /\ rows_arg = 0
    /\ n_legit = 0
    /\ n_dga = 0
    /\ t_i = 0
    /\ rows = <<>>
    /\ df = <<>>
    /\ files = {}
    /\ leader = "none"
    /\ automl_failed = FALSE
    /\ texc = "none"

TExit(e) ==
    /\ texc' = e
    /\ tpc' = "exit"

\* main, lines 94-101: the row count is split and synth_dataset is called
MainSplit ==
    /\ tpc = "start"
    /\ \E r \in -1..MaxRows :
          /\ rows_arg' = r
          /\ n_legit' = SplitLegit(r)
          /\ n_dga' = r - SplitLegit(r)
    /\ entry' = "main"
    /\ tpc' = "legit_loop"
    /\ UNCHANGED <<sldVars, infVars, t_i, rows, df, files, leader,
                   automl_failed, texc>>

\* synth_dataset(n_legit, n_dga) called with any two counts >= 0
CallSynth ==
    /\ tpc = "start"
    /\ \E a \in 0..MaxCall, b \in 0..MaxCall :
          /\ n_legit' = a
          /\ n_dga' = b
    /\ entry' = "call"
    /\ tpc' = "legit_loop"
    /\ UNCHANGED <<sldVars, infVars, rows_arg, t_i, rows, df, files, leader,
                   automl_failed, texc>>

\* for _ in range(n_legit): rows.append({..., "label": "legit"})
AppendLegit ==
    /\ tpc = "legit_loop"
    /\ IF t_i < RangeLen(n_legit)
       THEN /\ rows' = Append(rows, Row(Len(rows) + 1, "legit"))
            /\ t_i' = t_i + 1
            /\ UNCHANGED tpc
       ELSE /\ t_i' = 0
            /\ tpc' = "dga_loop"
            /\ UNCHANGED rows
    /\ UNCHANGED <<sldVars, infVars, entry, rows_arg, n_legit, n_dga, df, files,
                   leader, automl_failed, texc>>

\* for _ in range(n_dga): rows.append({..., "label": "dga"})
AppendDga ==
    /\ tpc = "dga_loop"
    /\ IF t_i < RangeLen(n_dga)
       THEN /\ rows' = Append(rows, Row(Len(rows) + 1, "dga"))
            /\ t_i' = t_i + 1
            /\ UNCHANGED tpc
       ELSE /\ t_i' = 0
            /\ tpc' = "shuffle"
            /\ UNCHANGED rows
    /\ UNCHANGED <<sldVars, infVars, entry, rows_arg, n_legit, n_dga, df, files,
                   leader, automl_failed, texc>>

\* return df.sample(frac=1.0, random_state=42).reset_index(drop=True)
Shuffle ==
    /\ tpc = "shuffle"
    /\ \E d \in Shuffles(rows) : df' = d
    /\ tpc' = IF entry = "call" THEN "returned" ELSE "csv"
    /\ UNCHANGED <<sldVars, infVars, entry, rows_arg, n_legit, n_dga, t_i, rows,
                   files, leader, automl_failed, texc>>

\* df.to_csv(csv_path)
WriteCsv ==
    /\ tpc = "csv"
    /\ files' = files \cup {CsvPath}
    /\ tpc' = "h2o_init"
    /\ UNCHANGED <<sldVars, infVars, entry, rows_arg, n_legit, n_dga, t_i, rows,
                   df, leader, automl_failed, texc>>

\* STEP 1: h2o.init()
TrainH2OInit ==
    /\ tpc = "h2o_init"
    /\ \E ok \in BOOLEAN :
          IF ok THEN tpc' = "frame" /\ UNCHANGED texc ELSE TExit("h2o.init failed")
    /\ UNCHANGED <<sldVars, infVars, entry, rows_arg, n_legit, n_dga, t_i, rows,
                   df, files, leader, automl_failed>>

\* STEP 2: hf = h2o.H2OFrame(df); hf[y] = hf[y].asfactor()
BuildFrame ==
    /\ tpc = "frame"
    /\ \E ok \in BOOLEAN :
          IF ok THEN tpc' = "automl" /\ UNCHANGED texc ELSE TExit("H2OFrame failed")
    /\ UNCHANGED <<sldVars, infVars, entry, rows_arg, n_legit, n_dga, t_i, rows,
                   df, files, leader, automl_failed>>

\* STEP 3: the try block
AutoML ==
    /\ tpc = "automl"
    /\ \E o \in AutoMLOutcomes :
          LET r == AutoMLStep(o)
          IN  /\ leader' = r.leader
              /\ automl_failed' = r.failed
              /\ IF r.exc # "none" THEN TExit(r.exc)
                 ELSE /\ tpc' = IF r.failed THEN "gbm" ELSE "export"
                      /\ UNCHANGED texc
    /\ UNCHANGED <<sldVars, infVars, entry, rows_arg, n_legit, n_dga, t_i, rows,
                   df, files>>

\* STEP 3: the except branch trains the fixed GBM, outside any try
FallbackGBM ==
    /\ tpc = "gbm"
    /\ \E ok \in BOOLEAN :
          IF ok THEN /\ leader' = "gbm"
                     /\ tpc' = "export"
                     /\ UNCHANGED texc
          ELSE TExit("gbm.train failed") /\ UNCHANGED leader
    /\ UNCHANGED <<sldVars, infVars, entry, rows_arg, n_legit, n_dga, t_i, rows,
                   df, files, automl_failed>>

\* STEP 4: lb_df.to_csv(lb_path)
ExportLeaderboard ==
    /\ tpc = "export"
    /\ files' = files \cup {LbPath}
    /\ tpc' = "download"
    /\ UNCHANGED <<sldVars, infVars, entry, rows_arg, n_legit, n_dga, t_i, rows,
                   df, leader, automl_failed, texc>>

\* mojo_tmp = leader.download_mojo(...)
DownloadMojo ==
    /\ tpc = "download"
    /\ \E ok \in BOOLEAN :
          IF ok THEN /\ files' = files \cup {MojoTmp}
                     /\ tpc' = "replace"
                     /\ UNCHANGED texc
          ELSE TExit("download_mojo failed") /\ UNCHANGED files
    /\ UNCHANGED <<sldVars, infVars, entry, rows_arg, n_legit, n_dga, t_i, rows,
                   df, leader, automl_failed>>

\* os.replace(mojo_tmp, final_mojo)
ReplaceMojo ==
    /\ tpc = "replace"
    /\ files' = (files \ {MojoTmp}) \cup {FinalMojo}
    /\ tpc' = "done"
    /\ UNCHANGED <<sldVars, infVars, entry, rows_arg, n_legit, n_dga, t_i, rows,
                   df, leader, automl_failed, texc>>

TrainNext ==
    \/ MainSplit \/ CallSynth \/ AppendLegit \/ AppendDga \/ Shuffle
    \/ WriteCsv \/ TrainH2OInit \/ BuildFrame \/ AutoML \/ FallbackGBM
    \/ ExportLeaderboard \/ DownloadMojo \/ ReplaceMojo

(***************************************************************************)
(* Feature consistency between training and inference                      *)
(***************************************************************************)
DomChars == {"a", "B", " ", "."}

RECURSIVE StringsUpTo(_, _)
StringsUpTo(S, n) ==
    IF n = 0 THEN {<<>>}
    ELSE LET prev == StringsUpTo(S, n - 1)
         IN  prev \cup {Append(p, c) : p \in {q \in prev : Len(q) = n - 1}, c \in S}

UserDomains == StringsUpTo(DomChars, MaxDomLen)

SldStart ==
    /\ s_kind = "none"
    /\ s_sld = <<>>
    /\ s_dom = <<>>
    /\ s_len = 0
    /\ s_out = <<>>

\* synth_dataset, one legit row
SynthLegitRow ==
    /\ spc = "start"
    /\ \E length \in LegitMinLen..LegitMaxLen, hyphen \in BOOLEAN,
          ext \in ExtMinLen..ExtMaxLen, seed \in 0..MaxSeed,
          t \in 1..Len(COMMON_TLDS) :
          LET sld == random_legit_label(length, hyphen, ext, seed)
          IN  /\ s_sld' = sld
              /\ s_dom' = make_domain(sld, COMMON_TLDS[t])
              /\ s_len' = Len(sld)
    /\ s_kind' = "legit"
    /\ spc' = "row"
    /\ UNCHANGED s_out
    /\ UNCHANGED <<infVars, trainVars>>

\* synth_dataset, one dga row
SynthDgaRow ==
    /\ spc = "start"
    /\ \E length \in DgaMinLen..DgaMaxLen, hyphen \in BOOLEAN,
          seed \in 0..MaxSeed, t \in 1..Len(COMMON_TLDS) :
       \E pos \in HyphenMargin..Max(HyphenMargin, length - HyphenMargin) :
          LET sld == random_dga_label(length, hyphen, pos, seed)
          IN  /\ s_sld' = sld
              /\ s_dom' = make_domain(sld, COMMON_TLDS[t])
              /\ s_len' = Len(sld)
    /\ s_kind' = "dga"
    /\ spc' = "row"
    /\ UNCHANGED s_out
    /\ UNCHANGED <<infVars, trainVars>>

\* --domain given on the command line
UserDomain ==
    /\ spc = "start"
    /\ \E d \in UserDomains : s_dom' = d
    /\ s_kind' = "user"
    /\ spc' = "row"
    /\ UNCHANGED <<s_sld, s_len, s_out>>
    /\ UNCHANGED <<infVars, trainVars>>

\* 2_analyze_domain.main: sld = split_sld(domain)
AnalyzeSld ==
    /\ spc = "row"
    /\ s_out' = split_sld(s_dom)
    /\ spc' = "scored"
    /\ UNCHANGED <<s_kind, s_sld, s_dom, s_len>>
    /\ UNCHANGED <<infVars, trainVars>>

SldNext == SynthLegitRow \/ SynthDgaRow \/ UserDomain \/ AnalyzeSld

SldInit ==
    /\ spc = "start" /\ SldStart
    /\ pc = "idle" /\ InfIdleArgs /\ InfStart
    /\ tpc = "idle" /\ TrainStart

SpecSld == SldInit /\ [][SldNext]_vars

(***************************************************************************)
(* Specifications of the inference run and of the normalizer               *)
(***************************************************************************)
Init ==
    /\ pc = "start"
    /\ domain \in Domains
    /\ mojo_exists \in BOOLEAN
    /\ skip_genai \in BOOLEAN
    /\ google_api_key \in ArgKeys
    /\ env_key \in EnvKeys
    /\ InfStart
    /\ spc = "idle" /\ SldStart
    /\ tpc = "idle" /\ TrainStart
Next == InfNext
Spec == Init /\ [][Next]_vars

NormInit ==
    /\ pc = "predict"
    /\ InfIdleArgs
    /\ InfStart
    /\ spc = "idle" /\ SldStart
    /\ tpc = "idle" /\ TrainStart

NormNext == PredictAny \/ Normalize
SpecNorm == NormInit /\ [][NormNext]_vars

TrainInit ==
    /\ tpc = "start" /\ TrainStart
    /\ pc = "idle" /\ InfIdleArgs /\ InfStart
    /\ spc = "idle" /\ SldStart
SpecTrain == TrainInit /\ [][TrainNext]_vars

(***************************************************************************)
(* Properties                                                              *)
(***************************************************************************)
\* The lower-cased, stripped component immediately left of the last dot of
\* the domain; the whole string, lower-cased and stripped, when the domain
\* has no dot.
StrippedComponent(dom) ==
    LET n == Lower(dom)
        dots == {i \in 1..Len(n) : n[i] = "."}
    IN  IF dots = {} THEN Strip(n)
        ELSE LET last == CHOOSE i \in dots : \A j \in dots : j <= i
                 before == {i \in dots : i < last}
                 prev == IF before = {} THEN 0
                         ELSE CHOOSE i \in before : \A j \in before : j <= i
             IN  Strip(SubSeq(n, prev + 1, last - 1))


\* ---- the normalizer (SpecNorm) ----

\* how the normalizer ended: the probability, or the exception raised
Outcome == IF pc = "exit" THEN [exc |-> exc, val |-> -1]
           ELSE [exc |-> "none", val |-> p_dga]

Normalized == pc \in {"decide", "exit"}

NamedCI(t, lname) == {i \in 1..Len(t) : Lower(t[i].name) = lname}
PPrefixedCI(t) == {i \in 1..Len(t) : StartsWith(Lower(t[i].name), "p")}

\* the table holds one of the recognised columns, in any letter case
Recognised(t) ==
    \/ NamedCI(t, N_dga) # {}
    \/ NamedCI(t, N_p1) # {}
    \/ Cardinality(PPrefixedCI(t)) >= 2
    \/ NamedCI(t, N_predict) # {}

\* C1: the normalizer takes the value of a column named dga; else of a
\* column named p1; else, with two or more p-prefixed columns, of the last
\* of them; else 1.0 if the predict column reads "1" or "dga" and 0.0 if
\* not -- every column name matched case-insensitively.
C1_FallbackOrder ==
    (Normalized /\ Recognised(pred)) =>
        IF NamedCI(pred, N_dga) # {}
        THEN \E i \in NamedCI(pred, N_dga) : Outcome = PyFloat(pred[i].val)
        ELSE IF NamedCI(pred, N_p1) # {}
        THEN \E i \in NamedCI(pred, N_p1) : Outcome = PyFloat(pred[i].val)
        ELSE IF Cardinality(PPrefixedCI(pred)) >= 2
        THEN \E i \in PPrefixedCI(pred) :
                /\ \A j \in PPrefixedCI(pred) : j <= i
                /\ Outcome = PyFloat(pred[i].val)
        ELSE \E i \in NamedCI(pred, N_predict) :
                Outcome = [exc |-> "none",
                           val |-> IF Lower(PyStr(pred[i].val)) \in {S_one, N_dga}
                                   THEN 10 ELSE 0]

\* C2: for a well-formed table holding a recognised column, in any column
\* order and letter case, the normalizer raises nothing and yields a number.
C2_NeverRaises ==
    (Normalized /\ Recognised(pred)) => (exc = "none" /\ p_dga \in 0..10)

\* ---- the inference run (Spec) ----

\* C3: once the label is decided it is dga exactly when the probability is
\* at least 0.5; a probability of exactly 0.5 gives dga.
C3_Threshold ==
    label # "none" =>
        /\ (label = "dga" /\ p_dga >= 5) \/ (label = "legit" /\ p_dga < 5)
        /\ p_dga = 5 => label = "dga"

C3_Witness == label = "dga" /\ p_dga = 5

\* C4: a findings block exists only under label dga; a legit run ends with
\* no findings block and no playbook request; a dga run builds the findings
\* block and then requests the playbook exactly once, or never when the skip
\* flag is set.
C4_FindingsThenPlaybook ==
    /\ xai_findings # <<>> => label = "dga"
    /\ playbook_calls \in {0, 1}
    /\ playbook_calls = 1 => (label = "dga" /\ xai_findings # <<>> /\ ~skip_genai)
    /\ (pc = "done" /\ label = "legit") =>
           (xai_findings = <<>> /\ playbook_calls = 0)
    /\ (pc = "done" /\ label = "dga") =>
           (xai_findings # <<>> /\ playbook_calls = IF skip_genai THEN 0 ELSE 1)
    /\ label \in {"dga", "legit"} => pc \in {"done", "shap", "genai"}

C4_Witness ==
    /\ pc = "done" /\ label = "dga" /\ ~skip_genai
    /\ xai_findings # <<>> /\ playbook_calls = 1

HasLine(f, tag) == \E i \in 1..Len(f) : f[i].tag = tag

\* C5: under label dga a failed attribution never ends the run: past the
\* attribution step there is always a findings block holding the domain
\* string and the probability, with the note and the reason when the
\* attribution failed, and the run goes on to the playbook step.
C5_AttributionRecoverable ==
    /\ label = "dga" => pc \in {"shap", "genai", "done"}
    /\ (label = "dga" /\ pc \in {"genai", "done"}) =>
          /\ \E i \in 1..Len(xai_findings) :
                xai_findings[i].tag = "domain" /\ xai_findings[i].text = domain
          /\ \E i \in 1..Len(xai_findings) :
                xai_findings[i].tag = "confidence" /\ xai_findings[i].a = 100 * p_dga
          /\ ~contrib.ok =>
                \E i \in 1..Len(xai_findings) :
                   xai_findings[i].tag = "note" /\ xai_findings[i].dir = contrib.reason
          /\ (pc = "done" /\ ~skip_genai) => playbook_calls = 1

C5_Witness ==
    /\ pc = "done" /\ label = "dga" /\ ~contrib.ok
    /\ HasLine(xai_findings, "note") /\ playbook_calls = 1

\* the first candidate's content.parts[0].text, where the body has one
HasFirst(v) == v.t = "list" /\ v.items # <<>>
HasField(v, key) == v.t = "dict" /\ HasKey(v, key)
CandidateText(body) == body.items[1].items[1].items[1].items[1].items[1].items[1]

\* the answer is a 200 carrying JSON with candidates[0].content.parts[0].text
WellFormedResponse(r) ==
    /\ r.net = "ok" /\ r.status = 200 /\ r.json
    /\ HasField(r.body, "candidates")
    /\ LET cs == AtKey(r.body, "candidates")
       IN  /\ HasFirst(cs) /\ HasField(cs.items[1], "content")
           /\ LET ct == AtKey(cs.items[1], "content")
              IN  /\ HasField(ct, "parts") /\ HasFirst(AtKey(ct, "parts"))
                  /\ HasField(AtKey(ct, "parts").items[1], "text")
                  /\ AtKey(AtKey(ct, "parts").items[1], "text").t = "str"

BeginsWithMarker(v) == v.t = "str" /\ Len(v.s) >= 1 /\ v.s[1] = ErrMarker

\* C6: generate_playbook always returns text and never raises: whatever the
\* remote call did, the result is a string that begins with the error
\* marker, except for a well-formed response, whose first candidate's text
\* is returned.
C6_PlaybookNeverRaises ==
    playbook_calls = 1 =>
        /\ pc = "done" /\ exc = "none"
        /\ playbook.t = "str"
        /\ IF WellFormedResponse(response)
           THEN playbook = CandidateText(response.body)
           ELSE BeginsWithMarker(playbook)

\* C8: with the artifact file missing the run ends in an error before any
\* prediction, findings block or playbook request; with no credential the
\* playbook call returns the reported error and sends no HTTP request.
C8_ConfigErrorAborts ==
    /\ ~mojo_exists =>
          /\ pc \in {"start", "h2o_init", "load", "exit"}
          /\ pred = <<>> /\ p_dga = -1 /\ label = "none"
          /\ xai_findings = <<>> /\ playbook_calls = 0 /\ http_requests = 0
          /\ pc = "exit" => exc \in {"h2o.init error", "SystemExit"}
    /\ (Falsy(google_api_key) /\ Falsy(env_key) /\ playbook_calls = 1) =>
          /\ http_requests = 0
          /\ response = NoResponse
          /\ BeginsWithMarker(playbook)
          /\ pc = "done"

C8_Witness ==
    /\ Falsy(google_api_key) /\ Falsy(env_key)
    /\ playbook_calls = 1 /\ http_requests = 0
    /\ BeginsWithMarker(playbook)

\* ---- training (SpecTrain) ----

\* C7: every training run that ends has produced the model artifact and
\* the leaderboard, whatever backend step failed.
C7_ArtifactAlways ==
    (entry = "main" /\ tpc \in {"done", "exit"}) =>
        (FinalMojo \in files /\ LbPath \in files)

CountLabel(d, lab) == Cardinality({i \in 1..Len(d) : d[i].label = lab})

\* C9: synth_dataset(nLegit, nDga) with counts >= 0 returns nLegit + nDga
\* records, nLegit of them legit and nDga dga, the shuffle keeping every
\* record exactly once; and main splits R into nLegit = floor(R/2) and
\* nDga = R - nLegit.
C9_Counts ==
    /\ (tpc \notin {"idle", "start", "legit_loop", "dga_loop", "shuffle"}
        /\ n_legit >= 0 /\ n_dga >= 0) =>
          /\ Len(df) = n_legit + n_dga
          /\ CountLabel(df, "legit") = n_legit
          /\ CountLabel(df, "dga") = n_dga
          /\ \A i, j \in 1..Len(df) : i # j => df[i] # df[j]
          /\ {df[i] : i \in 1..Len(df)} = {rows[i] : i \in 1..Len(rows)}
    /\ entry = "main" =>
          /\ n_legit + n_dga = rows_arg
          /\ 2 * n_legit <= rows_arg /\ rows_arg < 2 * n_legit + 2
          /\ n_dga - n_legit \in {0, 1}

C9_Witness ==
    /\ entry = "main" /\ tpc = "csv" /\ rows_arg = 3
    /\ n_legit = 1 /\ n_dga = 2
    /\ Len(df) = 3 /\ df[1].label = "dga" /\ df[2].label = "legit"

\* ---- feature consistency (SpecSld) ----

\* C10: for every generated label (legit or dga, hyphenated or not) and
\* every top-level domain, split_sld of the synthesized domain is exactly
\* the generated label, so the length stored at training equals the length
\* computed at inference; and for any domain split_sld is the lower-cased,
\* stripped component immediately left of the last dot, or the whole
\* string when there is no dot.
C10_SameFeatures ==
    spc = "scored" =>
        /\ s_kind \in {"legit", "dga"} => (s_out = s_sld /\ Len(s_out) = s_len)
        /\ s_out = StrippedComponent(s_dom)

====
